---- MODULE Spec2Model ----
(***************************************************************************)
(* Model of the cell-widget overlay of the spreadsheet component           *)
(* (packages/react/src/components/SheetOverlay/CellWidgets.tsx).           *)
(*                                                                         *)
(* The component is a function of the workbook context: every change of    *)
(* the context (scroll, resize, merge change, widget-list change, sheet    *)
(* switch) re-renders it.  Each action below is one such change followed   *)
(* by the render it triggers.                                              *)
(*                                                                         *)
(* JavaScript values.  An optional value is a tuple: <<>> is undefined     *)
(* (the field is absent), <<v>> is the value v.  A JavaScript number is    *)
(* <<n>>, and NaN is a tuple of length two, so that the three kinds are    *)
(* kept apart without comparing values of different sorts.                 *)
(***************************************************************************)
EXTENDS Integers, Sequences, FiniteSets, TLC

VARIABLES cellWidgets, currentSheetId, luckysheetfile,
          visibledatarow, visibledatacolumn, memo, rendered, reentered

\* The state of the demo page that hosts the workbook (DragFormWidgets);
\* widgetInstances is its state "widgets", a list of WidgetInstance
VARIABLES widgetInstances, activeSheetId, selection, mode, variant, nextId,
          validationErrors, submitResult, rowlen

storyVars == <<widgetInstances, activeSheetId, selection, mode, variant, nextId,
               validationErrors, submitResult, rowlen>>

vars == <<cellWidgets, currentSheetId, luckysheetfile,
          visibledatarow, visibledatacolumn, memo, rendered, reentered,
          widgetInstances, activeSheetId, selection, mode, variant, nextId,
          validationErrors, submitResult, rowlen>>

(***************************************************************************)
(* Bounds of the model.                                                    *)
(***************************************************************************)
\* Largest row / column index of the sheet (indices are 0..MaxIdx).
MaxIdx == 1

\* Largest number of entries of a merge map in the host specification.
MaxMerge == 2
\* Largest length of the widget list in the host specification.
MaxWidgets == 2

Idx == 0..MaxIdx

(***************************************************************************)
(* JavaScript values and arithmetic.                                       *)
(***************************************************************************)
Undef == << >>
NaN == <<0, 0>>
Num(n) == <<n>>
IsNum(v) == Len(v) = 1
Val(v) == v[1]

\* a ?? b
Nullish(a, b) == IF a = Undef THEN b ELSE a
\* a + b and a - b on numbers; undefined or NaN operands give NaN
JsAdd(a, b) == IF IsNum(a) /\ IsNum(b) THEN Num(Val(a) + Val(b)) ELSE NaN
JsSub(a, b) == IF IsNum(a) /\ IsNum(b) THEN Num(Val(a) - Val(b)) ELSE NaN
\* a >= b and a < b; a comparison with undefined or NaN is false
JsGe(a, b) == IsNum(a) /\ IsNum(b) /\ Val(a) >= Val(b)
JsLt(a, b) == IsNum(a) /\ IsNum(b) /\ Val(a) < Val(b)
\* truthiness of an optional boolean
Truthy(b) == b = <<TRUE>>

(***************************************************************************)
(* Visible axis tables.  A table maps each visible index to its pixel      *)
(* interval <<start, end>>; an index that is not visible is not in the     *)
(* domain.  Row and column sizes are drawn from RowSizes and ColSizes; a   *)
(* size of 0 is a hidden row.                                              *)
(***************************************************************************)
RowSizes == {0, 20}
ColSizes == {50}

RECURSIVE SumTo(_, _)
SumTo(sizes, i) == IF i = 0 THEN 0 ELSE SumTo(sizes, i - 1) + sizes[i - 1]

AxisTable(sizes, vis) == [i \in vis |-> <<SumTo(sizes, i), SumTo(sizes, i + 1)>>]

RowTables == {AxisTable(s, v) : s \in [Idx -> RowSizes], v \in SUBSET Idx}
ColTables == {AxisTable(s, v) : s \in [Idx -> ColSizes], v \in SUBSET Idx}

\* rowLocationByIndex(index, visibledatarow): <<start, end>> of the row, both
\* undefined when the index is not in the table.
rowLocationByIndex(index, table) ==
    IF IsNum(index) /\ Val(index) \in DOMAIN table
    THEN <<Num(table[Val(index)][1]), Num(table[Val(index)][2])>>
    ELSE <<Undef, Undef>>

\* colLocationByIndex(index, visibledatacolumn): the same on the column axis.
colLocationByIndex(index, table) ==
    IF IsNum(index) /\ Val(index) \in DOMAIN table
    THEN <<Num(table[Val(index)][1]), Num(table[Val(index)][2])>>
    ELSE <<Undef, Undef>>

(***************************************************************************)
(* The merge map of a sheet: undefined, or <<entries>> where entries is    *)
(* the sequence of the map's values in key enumeration order.  An entry is *)
(* null (<<>>) or <<block>>, block a record of the JavaScript values r, c, *)
(* rs, cs (each a number or undefined).                                    *)
(***************************************************************************)
NullBlock == << >>
Block(r, c, rs, cs) == <<[r |-> r, c |-> c, rs |-> rs, cs |-> cs]>>

\* The sheet with the id, <<>> when there is none:
\* context.luckysheetfile.find((item) => item.id === context.currentSheetId)
FindSheet(file, id) ==
    LET hits == {i \in 1..Len(file) : file[i].id = id}
    IN IF hits = {} THEN << >>
       ELSE <<file[CHOOSE i \in hits : \A j \in hits : i <= j]>>

\* sheet?.config?.merge
SheetMerge(sheet) == IF sheet = << >> THEN Undef ELSE sheet[1].merge

\* Object.keys(merge || {}) as the sequence of entries
MergeEntries(merge) == IF merge = Undef THEN << >> ELSE merge[1]

\* without "if (!block) return false": block.r of a null block raises
BlockContainsNoNullCheck(entry, widget) ==
    IF entry = << >> THEN "throw"
    ELSE LET block == entry[1]
         IN IF /\ JsGe(Num(widget.r), block.r)
               /\ JsLt(Num(widget.r), JsAdd(block.r, block.rs))
               /\ JsGe(Num(widget.c), block.c)
               /\ JsLt(Num(widget.c), JsAdd(block.c, block.cs))
            THEN "true" ELSE "false"

\* The callback of find: "true" / "false", or "throw" when it raises.
BlockContains(entry, widget) ==
    IF entry = NullBlock THEN "false"
    ELSE LET block == entry[1]
         IN IF /\ JsGe(Num(widget.r), block.r)
               /\ JsLt(Num(widget.r), JsAdd(block.r, block.rs))
               /\ JsGe(Num(widget.c), block.c)
               /\ JsLt(Num(widget.c), JsAdd(block.c, block.cs))
            THEN "true" ELSE "false"

\* the last entry whose callback is true is taken instead of the first
FindMergeKeyLast(entries, widget, k) ==
    LET ks == {j \in k..Len(entries) : BlockContains(entries[j], widget) = "true"}
    IN IF ks = {} THEN 0 ELSE CHOOSE j \in ks : \A i \in ks : i <= j

\* Object.keys(...).find(...): the position of the first entry whose callback
\* is true, 0 when there is none (undefined), -1 when a callback raised.
RECURSIVE FindMergeKey(_, _, _)
FindMergeKey(entries, widget, k) ==
    IF k > Len(entries) THEN 0
    ELSE LET b == BlockContains(entries[k], widget)
         IN IF b = "throw" THEN -1
            ELSE IF b = "true" THEN k
            ELSE FindMergeKey(entries, widget, k + 1)

\* the merge block is ignored: the rectangle is the anchor cell
EffectiveRectAnchorOnly(widget, entries, mergeKey) ==
    <<Num(widget.r), Num(widget.c), Num(widget.r), Num(widget.c)>>

\* The effective rectangle <<topRow, leftCol, bottomRow, rightCol>> of a widget
\* given the position of its merge key (0: none).
EffectiveRect(widget, entries, mergeKey) ==
    IF mergeKey > 0
    THEN LET block == entries[mergeKey][1]
         IN <<block.r, block.c,
              JsSub(JsAdd(block.r, block.rs), Num(1)),
              JsSub(JsAdd(block.c, block.cs), Num(1))>>
    ELSE <<Num(widget.r), Num(widget.c), Num(widget.r), Num(widget.c)>>

(***************************************************************************)
(* Event handlers.  An event is a record with its propagation flag; the    *)
(* grid below the overlay receives the events whose propagation was not    *)
(* stopped.                                                                *)
(***************************************************************************)
EventProps == {"onClick", "onMouseDown", "onDoubleClick", "onKeyDown", "onContextMenu"}

Event(prop) == [prop |-> prop, propagationStopped |-> FALSE]

\* const stopEvent = (e) => { e.stopPropagation(); }
stopEvent(e) == [e EXCEPT !.propagationStopped = TRUE]

\* the handler is attached whatever passthroughEvents is
StopHandlerAlways(widget) == "stopEvent"

\* const stopHandler = widget.passthroughEvents ? undefined : stopEvent
StopHandler(widget) == IF Truthy(widget.passthroughEvents) THEN "undefined" ELSE "stopEvent"

\* const pointerEvents = widget.passthroughEvents ? "none" : undefined
PointerEvents(widget) == IF Truthy(widget.passthroughEvents) THEN "none" ELSE "undefined"

\* onContextMenu is left without handler
HandlersNoContextMenu(widget) ==
    [p \in EventProps |-> IF p = "onContextMenu" THEN "undefined" ELSE StopHandler(widget)]

\* onClick, onMouseDown, onDoubleClick, onKeyDown, onContextMenu = {stopHandler}
Handlers(widget) == [p \in EventProps |-> StopHandler(widget)]

\* The event of the class after the element's handler for it has run
Deliver(element, prop) ==
    IF element.handlers[prop] = "stopEvent" THEN stopEvent(Event(prop)) ELSE Event(prop)

(***************************************************************************)
(* The element rendered for one widget (the body of widgets.map).          *)
(***************************************************************************)
\* right - left - 1 without the border pixel
DefaultSizeNoBorder(lo, hi) == JsSub(hi, lo)

\* two border pixels are subtracted
DefaultSizeTwoBorders(lo, hi) == JsSub(JsSub(hi, lo), Num(2))

\* right - left - 1, bottom - top - 1
DefaultSize(lo, hi) == JsSub(JsSub(hi, lo), Num(1))

\* explicit || default: an explicit 0 falls back to the default
SizeOfOr(explicit, lo, hi) ==
    IF explicit = Undef \/ explicit = Num(0) THEN DefaultSize(lo, hi) ELSE explicit

\* an explicit size is clamped to the size of the cell
SizeOfClamped(explicit, lo, hi) ==
    LET d == DefaultSize(lo, hi)
    IN IF explicit = Undef THEN d
       ELSE IF IsNum(d) /\ Val(d) < Val(explicit) THEN d ELSE explicit

\* widget.width ?? right - left - 1, widget.height ?? bottom - top - 1
SizeOf(explicit, lo, hi) == Nullish(explicit, DefaultSize(lo, hi))

\* the offset is dropped
PositionNoOffset(edge, offset) == JsAdd(edge, Num(0))

\* left + (widget.offsetX ?? 0), top + (widget.offsetY ?? 0)
Position(edge, offset) == JsAdd(edge, Nullish(offset, Num(0)))

WidgetElement(widget, sheetId, file, rows, cols) ==
    LET entries == MergeEntries(SheetMerge(FindSheet(file, sheetId)))
        mergeKey == FindMergeKey(entries, widget, 1)
        rect == EffectiveRect(widget, entries, mergeKey)
        top == rowLocationByIndex(rect[1], rows)[1]
        bottom == rowLocationByIndex(rect[3], rows)[2]
        left == colLocationByIndex(rect[2], cols)[1]
        right == colLocationByIndex(rect[4], cols)[2]
    IN [raised |-> mergeKey < 0,
        key |-> widget.id,
        left |-> Position(left, widget.offsetX),
        top |-> Position(top, widget.offsetY),
        width |-> SizeOf(widget.width, left, right),
        height |-> SizeOf(widget.height, top, bottom),
        pointerEvents |-> PointerEvents(widget),
        handlers |-> Handlers(widget)]

(***************************************************************************)
(* The component.  memo is the state of its useMemo: the dependencies of   *)
(* the last computation and the filtered list it produced.                 *)
(***************************************************************************)
\* widgets without a sheetId are dropped
FilterWidgetsStrict(widgetList, sheetId) ==
    LET list == IF widgetList = Undef THEN << >> ELSE widgetList[1]
        Keep(w) == w.sheetId = sheetId
    IN SelectSeq(list, Keep)

\* (settings.cellWidgets || []).filter(...)
FilterWidgets(widgetList, sheetId) ==
    LET list == IF widgetList = Undef THEN << >> ELSE widgetList[1]
        Keep(w) == w.sheetId = "" \/ w.sheetId = sheetId
    IN SelectSeq(list, Keep)

\* the widget list is missing from the dependencies
MemoDepsSheetOnly(widgetList, sheetId) == <<sheetId>>

\* the active sheet id is missing from the dependencies
MemoDepsListOnly(widgetList, sheetId) == <<widgetList>>

\* [context.currentSheetId, settings.cellWidgets]
MemoDeps(widgetList, sheetId) == <<sheetId, widgetList>>

UseMemo(m, widgetList, sheetId) ==
    IF m.deps = MemoDeps(widgetList, sheetId) THEN m
    ELSE [deps |-> MemoDeps(widgetList, sheetId),
          value |-> FilterWidgets(widgetList, sheetId)]

NoMemo == [deps |-> << >>, value |-> << >>]

\* the position is computed once, for the first widget, outside the loop
CellWidgetsSharedPosition(m, widgetList, sheetId, file, rows, cols) ==
    LET widgets == UseMemo(m, widgetList, sheetId).value
        first == WidgetElement(widgets[1], sheetId, file, rows, cols)
        els == [i \in 1..Len(widgets) |->
                   [WidgetElement(widgets[i], sheetId, file, rows, cols)
                      EXCEPT !.left = first.left, !.top = first.top]]
    IN IF Len(widgets) = 0
       THEN [raised |-> FALSE, container |-> FALSE, elements |-> << >>]
       ELSE IF \E i \in 1..Len(els) : els[i].raised
       THEN [raised |-> TRUE, container |-> FALSE, elements |-> << >>]
       ELSE [raised |-> FALSE, container |-> TRUE, elements |-> els]

\* the early return for an empty list is missing: an empty container is rendered
CellWidgetsNoEarlyReturn(m, widgetList, sheetId, file, rows, cols) ==
    LET widgets == UseMemo(m, widgetList, sheetId).value
        els == [i \in 1..Len(widgets) |->
                   WidgetElement(widgets[i], sheetId, file, rows, cols)]
    IN IF \E i \in 1..Len(els) : els[i].raised
       THEN [raised |-> TRUE, container |-> FALSE, elements |-> << >>]
       ELSE [raised |-> FALSE, container |-> TRUE, elements |-> els]

\* The output of one render: raised when resolution of a widget raised,
\* otherwise null (container FALSE) or the container with its elements.
CellWidgets(m, widgetList, sheetId, file, rows, cols) ==
    LET widgets == UseMemo(m, widgetList, sheetId).value
        els == [i \in 1..Len(widgets) |->
                   WidgetElement(widgets[i], sheetId, file, rows, cols)]
    IN IF Len(widgets) = 0
       THEN [raised |-> FALSE, container |-> FALSE, elements |-> << >>]
       ELSE IF \E i \in 1..Len(els) : els[i].raised
       THEN [raised |-> TRUE, container |-> FALSE, elements |-> << >>]
       ELSE [raised |-> FALSE, container |-> TRUE, elements |-> els]

(***************************************************************************)
(* Inputs of the geometry specification: one sheet "s1", one widget.       *)
(***************************************************************************)
Widget(id, r, c, sheetId, width, height, offsetX, offsetY, passthroughEvents) ==
    [id |-> id, r |-> r, c |-> c, sheetId |-> sheetId,
     width |-> width, height |-> height,
     offsetX |-> offsetX, offsetY |-> offsetY,
     passthroughEvents |-> passthroughEvents]

\* <<width, height, offsetX, offsetY>> of the widgets tried: no override, a
\* width wider than any cell, a height of 0, both sizes, offsets only, all four.
GeomStyles ==
    { <<Undef, Undef, Undef, Undef>>,
      <<Num(60), Undef, Undef, Undef>>,
      <<Undef, Num(0), Undef, Undef>>,
      <<Num(10), Num(60), Undef, Undef>>,
      <<Undef, Undef, Num(7), Num(-3)>>,
      <<Num(60), Num(0), Num(-3), Num(7)>> }

GeomWidgets ==
    { Widget("w1", r, c, "", st[1], st[2], st[3], st[4], Undef) :
        r \in Idx, c \in Idx, st \in GeomStyles }

\* Well-formed merge blocks
GeomBlocks ==
    { Block(Num(0), Num(0), Num(2), Num(2)),
      Block(Num(1), Num(0), Num(1), Num(2)),
      Block(Num(0), Num(1), Num(2), Num(1)) }

\* The cells of a well-formed block
BlockCells(entry) ==
    { <<r, c>> \in (0..(MaxIdx + 2)) \X (0..(MaxIdx + 2)) :
        /\ r >= Val(entry[1].r) /\ r < Val(entry[1].r) + Val(entry[1].rs)
        /\ c >= Val(entry[1].c) /\ c < Val(entry[1].c) + Val(entry[1].cs) }

\* No two blocks of the sequence share a cell (the data model's invariant)
NonOverlapping(entries) ==
    \A i, j \in 1..Len(entries) :
        i # j => BlockCells(entries[i]) \cap BlockCells(entries[j]) = {}

SeqsUpTo(S, n) == UNION { [1..k -> S] : k \in 0..n }

\* Merge maps of the geometry specification: no map at all, an empty map, or
\* one well-formed block.
GeomMerges == {Undef} \cup { <<es>> : es \in SeqsUpTo(GeomBlocks, 1) }

Sheet(id, merge) == [id |-> id, merge |-> merge]

\* The widget's effective rectangle has all four edges in the axis tables.
RectVisible(widget, sheetId, file, rows, cols) ==
    LET entries == MergeEntries(SheetMerge(FindSheet(file, sheetId)))
        mergeKey == FindMergeKey(entries, widget, 1)
        rect == EffectiveRect(widget, entries, mergeKey)
    IN /\ mergeKey >= 0
       /\ \A k \in {1, 3} : IsNum(rect[k]) /\ Val(rect[k]) \in DOMAIN rows
       /\ \A k \in {2, 4} : IsNum(rect[k]) /\ Val(rect[k]) \in DOMAIN cols

\* The keys of the widgets whose rectangle was not visible before the change
\* and is visible after it.
Reentering(list, sheetId, file, rows, cols, file2, rows2, cols2) ==
    LET ws == FilterWidgets(list, sheetId)
    IN { ws[i].id : i \in { j \in 1..Len(ws) :
            /\ ~RectVisible(ws[j], sheetId, file, rows, cols)
            /\ RectVisible(ws[j], sheetId, file2, rows2, cols2) } }

\* the elements are kept as long as the filtered widget list is the same
RerenderStale(list, sheetId, file, rows, cols) ==
    /\ memo' = UseMemo(memo, list, sheetId)
    /\ rendered' = IF memo'.value = memo.value /\ rendered.container THEN rendered
                   ELSE CellWidgets(memo, list, sheetId, file, rows, cols)

\* The render that follows a change of the context.
Rerender(list, sheetId, file, rows, cols) ==
    /\ memo' = UseMemo(memo, list, sheetId)
    /\ rendered' = CellWidgets(memo, list, sheetId, file, rows, cols)

\* the filter is applied to the host's array in place
PassInputsFiltered(list, sheetId, file, rows, cols) ==
    <<IF list = Undef THEN Undef ELSE <<FilterWidgets(list, sheetId)>>, sheetId, file, rows, cols>>

\* The inputs as a pass leaves them: filter, map, find and Object.keys read
\* the list, the sheets and the tables and write to none of them.
PassInputs(list, sheetId, file, rows, cols) == <<list, sheetId, file, rows, cols>>

\* The component renders again with the context as it is (its parent renders).
Refresh ==
    LET after == PassInputs(cellWidgets, currentSheetId, luckysheetfile,
                            visibledatarow, visibledatacolumn)
    IN /\ cellWidgets' = after[1]
       /\ currentSheetId' = after[2]
       /\ luckysheetfile' = after[3]
       /\ visibledatarow' = after[4]
       /\ visibledatacolumn' = after[5]
       /\ Rerender(cellWidgets, currentSheetId, luckysheetfile,
                   visibledatarow, visibledatacolumn)
       /\ reentered' = {}
       /\ UNCHANGED storyVars

\* The overlay without the demo page around it: the page's state is empty.
StoryUnmounted ==
    /\ widgetInstances = << >>
    /\ activeSheetId = ""
    /\ selection = Undef
    /\ mode = "edit"
    /\ variant = "none"
    /\ nextId = 0
    /\ validationErrors = {}
    /\ submitResult = [kind |-> "none", values |-> << >>]
    /\ rowlen = << >>

Init ==
    /\ StoryUnmounted
    /\ cellWidgets \in { <<(<<w>>)>> : w \in GeomWidgets }
    /\ currentSheetId = "s1"
    /\ luckysheetfile \in { <<Sheet("s1", m)>> : m \in GeomMerges }
    /\ visibledatarow \in RowTables
    /\ visibledatacolumn \in ColTables
    /\ memo = UseMemo(NoMemo, cellWidgets, currentSheetId)
    /\ rendered = CellWidgets(NoMemo, cellWidgets, currentSheetId, luckysheetfile,
                              visibledatarow, visibledatacolumn)
    /\ reentered = {}

\* Two tables of one axis that differ by a scroll step: one index enters or
\* leaves, the indices that stay keep their intervals.
ScrollStep(t, u) ==
    /\ Cardinality((DOMAIN t \ DOMAIN u) \cup (DOMAIN u \ DOMAIN t)) = 1
    /\ \A i \in DOMAIN t \cap DOMAIN u : t[i] = u[i]

\* Two tables of one axis that differ by a resize: same indices, other sizes.
ResizeStep(t, u) == DOMAIN t = DOMAIN u /\ t # u

\* The grid scrolls or a row is resized: visibledatarow is refreshed.
RowsChange(t) ==
    /\ ScrollStep(visibledatarow, t) \/ ResizeStep(visibledatarow, t)
    /\ visibledatarow' = t
    /\ Rerender(cellWidgets, currentSheetId, luckysheetfile, t, visibledatacolumn)
    /\ reentered' = Reentering(cellWidgets, currentSheetId,
                               luckysheetfile, visibledatarow, visibledatacolumn,
                               luckysheetfile, t, visibledatacolumn)
    /\ UNCHANGED <<cellWidgets, currentSheetId, luckysheetfile, visibledatacolumn>>
    /\ UNCHANGED storyVars

\* The grid scrolls or a column is resized: visibledatacolumn is refreshed.
ColsChange(t) ==
    /\ ScrollStep(visibledatacolumn, t) \/ ResizeStep(visibledatacolumn, t)
    /\ visibledatacolumn' = t
    /\ Rerender(cellWidgets, currentSheetId, luckysheetfile, visibledatarow, t)
    /\ reentered' = Reentering(cellWidgets, currentSheetId,
                               luckysheetfile, visibledatarow, visibledatacolumn,
                               luckysheetfile, visibledatarow, t)
    /\ UNCHANGED <<cellWidgets, currentSheetId, luckysheetfile, visibledatarow>>
    /\ UNCHANGED storyVars

\* The file with the merge map of the sheet replaced.
WithMerge(file, id, m) ==
    [i \in 1..Len(file) |-> IF file[i].id = id THEN Sheet(id, m) ELSE file[i]]

\* The merge map of the active sheet changes (cells are merged or unmerged).
MergeChange(m) ==
    /\ SheetMerge(FindSheet(luckysheetfile, currentSheetId)) # m
    /\ FindSheet(luckysheetfile, currentSheetId) # << >>
    /\ luckysheetfile' = WithMerge(luckysheetfile, currentSheetId, m)
    /\ Rerender(cellWidgets, currentSheetId, luckysheetfile', visibledatarow, visibledatacolumn)
    /\ reentered' = Reentering(cellWidgets, currentSheetId,
                               luckysheetfile, visibledatarow, visibledatacolumn,
                               luckysheetfile', visibledatarow, visibledatacolumn)
    /\ UNCHANGED <<cellWidgets, currentSheetId, visibledatarow, visibledatacolumn>>
    /\ UNCHANGED storyVars

\* The host supplies a new widget list (settings.cellWidgets).
WidgetListChange(list) ==
    /\ list # cellWidgets
    /\ cellWidgets' = list
    /\ Rerender(list, currentSheetId, luckysheetfile, visibledatarow, visibledatacolumn)
    /\ reentered' = {}
    /\ UNCHANGED <<currentSheetId, luckysheetfile, visibledatarow, visibledatacolumn>>
    /\ UNCHANGED storyVars

\* Two widgets that differ in the anchor only, or in the overrides only.
OneEdit(w, v) ==
    \/ <<w.width, w.height, w.offsetX, w.offsetY>> = <<v.width, v.height, v.offsetX, v.offsetY>>
    \/ <<w.r, w.c>> = <<v.r, v.c>>

\* The host moves the widget or edits its overrides, and supplies the new list.
WidgetEdit(w) ==
    /\ OneEdit(cellWidgets[1][1], w)
    /\ WidgetListChange(<<(<<w>>)>>)

Next ==
    \/ \E t \in RowTables : RowsChange(t)
    \/ \E t \in ColTables : ColsChange(t)
    \/ \E m \in GeomMerges : MergeChange(m)
    \/ \E w \in GeomWidgets : WidgetEdit(w)
    \/ Refresh

Spec == Init /\ [][Next]_vars

(***************************************************************************)
(* The host specification: two sheets "s1" and "s2", a widget list of up   *)
(* to MaxWidgets widgets that the host grows and shrinks, merge maps with  *)
(* null and malformed entries and with overlapping blocks, a sheet list    *)
(* that may lack the sheet "s2", and the fully visible example tables.     *)
(***************************************************************************)
HostWidgets ==
    { Widget("w1", 0, 0, "", Undef, Undef, Undef, Undef, Undef),
      Widget("w2", 1, 1, "s1", Undef, Undef, Undef, Undef, <<TRUE>>),
      Widget("w3", 1, 0, "s2", Num(60), Undef, Undef, Undef, <<FALSE>>),
      Widget("w1", 1, 1, "s2", Undef, Undef, Num(7), Undef, <<TRUE>>),
      Widget("w2", 1, 1, "s2", Undef, Undef, Undef, Undef, <<TRUE>>) }

HostLists == {Undef} \cup { <<l>> : l \in SeqsUpTo(HostWidgets, MaxWidgets) }

\* null, an entry without rs, an entry without c, and two blocks that overlap
\* in the cells (1,0) and (1,1)
HostEntries ==
    { NullBlock,
      Block(Num(0), Num(0), Undef, Num(2)),
      Block(Num(1), Undef, Num(1), Num(2)),
      Block(Num(0), Num(0), Num(2), Num(2)),
      Block(Num(1), Num(0), Num(1), Num(2)) }

\* the keys of a merge map are distinct, and so are the entries tried
HostMerges ==
    {Undef} \cup { <<es>> : es \in { s \in SeqsUpTo(HostEntries, MaxMerge) :
                                       \A i, j \in 1..Len(s) : i # j => s[i] # s[j] } }

\* The merge maps tried for a sheet
MergesOf(id) ==
    IF id = "s1" THEN HostMerges
    ELSE {<<(<< >>)>>, <<(<<Block(Num(1), Num(0), Num(1), Num(2))>>)>>}

FullTable(size) == AxisTable([i \in Idx |-> size], Idx)

InitHost ==
    /\ StoryUnmounted
    /\ cellWidgets = <<(<< >>)>>
    /\ currentSheetId = "s1"
    /\ luckysheetfile = <<Sheet("s1", Undef), Sheet("s2", <<(<< >>)>>)>>
    /\ visibledatarow = FullTable(20)
    /\ visibledatacolumn = FullTable(50)
    /\ memo = UseMemo(NoMemo, cellWidgets, currentSheetId)
    /\ rendered = CellWidgets(NoMemo, cellWidgets, currentSheetId, luckysheetfile,
                              visibledatarow, visibledatacolumn)
    /\ reentered = {}

\* The user switches to another sheet.
SheetSwitch(id) ==
    /\ id # currentSheetId
    /\ currentSheetId' = id
    /\ Rerender(cellWidgets, id, luckysheetfile, visibledatarow, visibledatacolumn)
    /\ reentered' = {}
    /\ UNCHANGED <<cellWidgets, luckysheetfile, visibledatarow, visibledatacolumn>>
    /\ UNCHANGED storyVars

\* The host appends a widget to its list and supplies the new list.
AddWidget(w) ==
    LET list == IF cellWidgets = Undef THEN << >> ELSE cellWidgets[1]
    IN /\ Len(list) < MaxWidgets
       /\ WidgetListChange(<<Append(list, w)>>)

\* The host removes the widget at a position and supplies the new list.
RemoveWidget(i) ==
    /\ cellWidgets # Undef
    /\ i \in 1..Len(cellWidgets[1])
    /\ WidgetListChange(<<[j \in 1..(Len(cellWidgets[1]) - 1) |->
                             IF j < i THEN cellWidgets[1][j] ELSE cellWidgets[1][j + 1]]>>)

\* The host moves the widget at a position to another sheet (its sheetId
\* changes) and supplies the new list.
RetargetWidget(i, sid) ==
    /\ cellWidgets # Undef
    /\ i \in 1..Len(cellWidgets[1])
    /\ [cellWidgets[1][i] EXCEPT !.sheetId = sid] \in HostWidgets
    /\ WidgetListChange(<<[cellWidgets[1] EXCEPT ![i] = [@ EXCEPT !.sheetId = sid]]>>)

\* The host stops passing a widget list (settings.cellWidgets is undefined).
UnsetWidgets == WidgetListChange(Undef)

\* Two merge maps that differ by one entry added or removed, or by the map
\* itself being created or dropped.
MergeStep(a, b) ==
    LET Shorter(x, y) ==
            /\ Len(x) + 1 = Len(y)
            /\ \E k \in 1..Len(y) :
                  x = [j \in 1..Len(x) |-> IF j < k THEN y[j] ELSE y[j + 1]]
    IN \/ a = Undef /\ b = <<(<< >>)>>
       \/ b = Undef /\ a = <<(<< >>)>>
       \/ a # Undef /\ b # Undef /\ (Shorter(a[1], b[1]) \/ Shorter(b[1], a[1]))

\* Cells of the active sheet are merged or unmerged.
MergeEdit(m) ==
    /\ MergeStep(SheetMerge(FindSheet(luckysheetfile, currentSheetId)), m)
    /\ MergeChange(m)

\* The sheet list is replaced: the data of sheet "s2" goes away or comes back.
SheetDataChange ==
    /\ luckysheetfile' = IF FindSheet(luckysheetfile, "s2") = << >>
                         THEN Append(luckysheetfile, Sheet("s2", <<(<< >>)>>))
                         ELSE SelectSeq(luckysheetfile, LAMBDA sh : sh.id # "s2")
    /\ Rerender(cellWidgets, currentSheetId, luckysheetfile', visibledatarow, visibledatacolumn)
    /\ reentered' = {}
    /\ UNCHANGED <<cellWidgets, currentSheetId, visibledatarow, visibledatacolumn>>
    /\ UNCHANGED storyVars

NextHost ==
    \/ \E id \in {"s1", "s2"} : SheetSwitch(id)
    \/ \E w \in HostWidgets : AddWidget(w)
    \/ \E i \in 1..MaxWidgets : RemoveWidget(i)
    \/ \E i \in 1..MaxWidgets, sid \in {"s1", "s2"} : RetargetWidget(i, sid)
    \/ UnsetWidgets
    \/ \E m \in MergesOf(currentSheetId) : MergeEdit(m)
    \/ SheetDataChange
    \/ Refresh

SpecHost == InitHost /\ [][NextHost]_vars

(***************************************************************************)
(* The component on a sheet with hidden rows and hidden columns: a column  *)
(* of width 0 has an empty interval in the column table.  The widget has   *)
(* no explicit size and no offsets.                                        *)
(***************************************************************************)
HiddenColSizes == {0, 50}

HiddenColTables == {AxisTable(s, v) : s \in [Idx -> HiddenColSizes], v \in SUBSET Idx}

PlainWidgets ==
    { Widget("w1", r, c, "", Undef, Undef, Undef, Undef, Undef) : r \in Idx, c \in Idx }

InitHidden ==
    /\ StoryUnmounted
    /\ cellWidgets \in { <<(<<w>>)>> : w \in PlainWidgets }
    /\ currentSheetId = "s1"
    /\ luckysheetfile \in { <<Sheet("s1", m)>> : m \in GeomMerges }
    /\ visibledatarow \in RowTables
    /\ visibledatacolumn \in HiddenColTables
    /\ memo = UseMemo(NoMemo, cellWidgets, currentSheetId)
    /\ rendered = CellWidgets(NoMemo, cellWidgets, currentSheetId, luckysheetfile,
                              visibledatarow, visibledatacolumn)
    /\ reentered = {}

NextHidden ==
    \/ \E t \in RowTables : RowsChange(t)
    \/ \E t \in HiddenColTables : ColsChange(t)
    \/ \E m \in GeomMerges : MergeChange(m)
    \/ \E w \in PlainWidgets : WidgetEdit(w)
    \/ Refresh

SpecHidden == InitHidden /\ [][NextHidden]_vars

(***************************************************************************)
(* The demo page DragFormWidgets (stories/DragFormWidgets.stories.tsx).    *)
(* It keeps a list of widget instances and reads the selection and the     *)
(* sheet from the workbook.  A selection is undefined or <<ranges>>, a     *)
(* range being [row |-> <<r0, r1>>, column |-> <<c0, c1>>].  The merge     *)
(* maps of the page's sheets are the grid's own: every entry is a block    *)
(* with numbers r, c, rs, cs.                                              *)
(***************************************************************************)
Range(r0, r1, c0, c1) == [row |-> <<r0, r1>>, column |-> <<c0, c1>>]

withinSelection(widget, range) ==
    /\ widget.r >= range.row[1] /\ widget.r <= range.row[2]
    /\ widget.c >= range.column[1] /\ widget.c <= range.column[2]

\* selections?.some((s) => withinSelection(widget, s)) ?? false
selectionContains(widget, selections) ==
    IF selections = Undef THEN FALSE
    ELSE \E i \in 1..Len(selections[1]) : withinSelection(widget, selections[1][i])

\* The condition of the loops of findMergeAnchor and findMergeRange
blockHolds(block, row, column) ==
    /\ JsGe(Num(row), block.r) /\ JsLt(Num(row), JsAdd(block.r, block.rs))
    /\ JsGe(Num(column), block.c) /\ JsLt(Num(column), JsAdd(block.c, block.cs))

\* The index of the first entry that holds the cell, 0 when there is none
firstBlock(sheet, row, column) ==
    LET entries == MergeEntries(SheetMerge(sheet))
        ks == {k \in 1..Len(entries) : blockHolds(entries[k][1], row, column)}
    IN IF ks = {} THEN 0 ELSE CHOOSE k \in ks : \A j \in ks : k <= j

\* findMergeAnchor(sheet, row, column): <<r, c>>
findMergeAnchor(sheet, row, column) ==
    LET k == firstBlock(sheet, row, column)
        block == MergeEntries(SheetMerge(sheet))[k][1]
    IN IF k = 0 THEN <<row, column>> ELSE <<Val(block.r), Val(block.c)>>

\* findMergeRange(sheet, row, column): [r, c, rs, cs]
findMergeRange(sheet, row, column) ==
    LET k == firstBlock(sheet, row, column)
        block == MergeEntries(SheetMerge(sheet))[k][1]
    IN IF k = 0 THEN [r |-> row, c |-> column, rs |-> 1, cs |-> 1]
       ELSE [r |-> Val(block.r), c |-> Val(block.c), rs |-> Val(block.rs), cs |-> Val(block.cs)]

\* String(n) as the sequence of its character codes ("-" is 45, "0" is 48)
RECURSIVE numberToString(_)
numberToString(n) ==
    IF n < 0 THEN <<45>> \o numberToString(0 - n)
    ELSE IF n < 10 THEN <<48 + n>>
    ELSE numberToString(n \div 10) \o <<48 + (n % 10)>>

\* `${r}-${c}`
cellKey(r, c) == numberToString(r) \o <<45>> \o numberToString(c)

\* The cells of a range in the order of the two for loops (rows, then columns)
cellsOfRange(range) ==
    LET nr == IF range.row[2] >= range.row[1] THEN range.row[2] - range.row[1] + 1 ELSE 0
        nc == IF range.column[2] >= range.column[1]
              THEN range.column[2] - range.column[1] + 1 ELSE 0
    IN [k \in 1..(nr * nc) |->
           <<range.row[1] + ((k - 1) \div nc), range.column[1] + ((k - 1) % nc)>>]

\* The cells of the ranges in the order of ranges.forEach
RECURSIVE cellsOfRanges(_)
cellsOfRanges(ranges) ==
    IF ranges = << >> THEN << >>
    ELSE cellsOfRange(Head(ranges)) \o cellsOfRanges(Tail(ranges))

\* the key of the set "seen" is made from the cell, not from its anchor
RECURSIVE pushTargetsByCell(_, _, _, _)
pushTargetsByCell(cells, sheet, targets, seen) ==
    IF cells = << >> THEN targets
    ELSE LET anchor == findMergeAnchor(sheet, Head(cells)[1], Head(cells)[2])
             key == cellKey(Head(cells)[1], Head(cells)[2])
         IN IF key \in seen THEN pushTargetsByCell(Tail(cells), sheet, targets, seen)
            ELSE pushTargetsByCell(Tail(cells), sheet, Append(targets, anchor), seen \cup {key})

\* The body of the inner loop of resolveTargetCells over the cells
RECURSIVE pushTargets(_, _, _, _)
pushTargets(cells, sheet, targets, seen) ==
    IF cells = << >> THEN targets
    ELSE LET anchor == findMergeAnchor(sheet, Head(cells)[1], Head(cells)[2])
             key == cellKey(anchor[1], anchor[2])
         IN IF key \in seen THEN pushTargets(Tail(cells), sheet, targets, seen)
            ELSE pushTargets(Tail(cells), sheet, Append(targets, anchor), seen \cup {key})

\* resolveTargetCells(ranges, sheet): the sequence of anchors <<r, c>>
resolveTargetCells(ranges, sheet) == pushTargets(cellsOfRanges(ranges), sheet, << >>, {})

\* value === undefined || value === null || value === "" ||
\* (typeof value === "object" && Object.keys(value).length === 0).
\* A value is one of the strings "undefined", "null", "", "{}", "[]", or a
\* non-empty string, a number written as a string, or "{v}" for an object
\* with a key.
isCellEmpty(value) == value \in {"undefined", "null", "", "{}", "[]"}

(***************************************************************************)
(* The widget list of the page.  A widget instance is a record id, r, c,   *)
(* sheetId, template, value, required.  The id is made of the template,    *)
(* the cell, the sheet, Date.now() and Math.random(): the model numbers    *)
(* the instances in the order of their creation.  The page exists in two   *)
(* variants: "replace" (adding at an occupied cell replaces the widget     *)
(* there) and "stack" (several widgets per cell, grouped, with the row     *)
(* heights following the groups).                                          *)
(***************************************************************************)
\* Largest number of widget instances created in a behaviour.
MaxIds == 2

TemplateKeys == {"text", "note"}

\* templates[templateKey].required
templateRequired(templateKey) == IF templateKey = "text" THEN <<TRUE>> ELSE Undef

\* createWidgetInstances(templateKey, sheetId, targets), the first id being id0
createWidgetInstances(templateKey, sheetId, targets, id0) ==
    [k \in 1..Len(targets) |->
        [id |-> id0 + k - 1,
         r |-> targets[k][1],
         c |-> targets[k][2],
         sheetId |-> sheetId,
         template |-> templateKey,
         value |-> "",
         required |-> templateRequired(templateKey)]]

\* workbookRef.current?.getSheet(): the active sheet, or undefined when the
\* workbook does not answer
getSheet(answers) == IF answers THEN FindSheet(luckysheetfile, currentSheetId) ELSE << >>

\* currentSheet?.id || activeSheetId, getCurrentSheet()?.id ?? activeSheetId
\* ("" is no sheet id)
sheetIdOf(sheet) == IF sheet # << >> /\ sheet[1].id # "" THEN sheet[1].id ELSE activeSheetId

\* !currentSelection?.length
noSelection(sel) == sel = Undef \/ Len(sel[1]) = 0

\* every target is appended, nothing is removed
widgetsAfterAddAppend(prev, templateKey, sheetId, sheet, sel, id0) ==
    prev \o createWidgetInstances(templateKey, sheetId, resolveTargetCells(sel[1], sheet), id0)

\* the widgets of the other sheets at the target cells are removed as well
widgetsAfterAddAnySheet(prev, templateKey, sheetId, sheet, sel, id0) ==
    LET instances == createWidgetInstances(templateKey, sheetId,
                                           resolveTargetCells(sel[1], sheet), id0)
        occupied == {cellKey(instances[k].r, instances[k].c) : k \in 1..Len(instances)}
        Stays(w) == cellKey(w.r, w.c) \notin occupied
    IN SelectSeq(prev, Stays) \o instances

\* The updater passed to setWidgets by addWidgetAtSelection, replace variant
widgetsAfterAddReplace(prev, templateKey, sheetId, sheet, sel, id0) ==
    LET instances == createWidgetInstances(templateKey, sheetId,
                                           resolveTargetCells(sel[1], sheet), id0)
        occupied == {cellKey(instances[k].r, instances[k].c) : k \in 1..Len(instances)}
        Stays(w) == w.sheetId # sheetId \/ cellKey(w.r, w.c) \notin occupied
    IN SelectSeq(prev, Stays) \o instances

\* The updater passed to setWidgets by addWidgetAtSelection, stack variant
widgetsAfterAddStack(prev, templateKey, sheetId, sheet, sel, id0) ==
    prev \o createWidgetInstances(templateKey, sheetId, resolveTargetCells(sel[1], sheet), id0)

\* the range is taken without its last row and last column
widgetsAfterRemoveExclusive(prev, ranges, sheetId) ==
    LET Inside(w) == \E i \in 1..Len(ranges[1]) :
                        /\ w.r >= ranges[1][i].row[1] /\ w.r < ranges[1][i].row[2]
                        /\ w.c >= ranges[1][i].column[1] /\ w.c < ranges[1][i].column[2]
        Stays(w) == ~(w.sheetId = sheetId /\ Inside(w))
    IN SelectSeq(prev, Stays)

\* removeWidgetsInSelection(ranges, sheetId) applied to the list
widgetsAfterRemove(prev, ranges, sheetId) ==
    LET Stays(w) == ~(w.sheetId = sheetId /\ selectionContains(w, ranges))
    IN IF noSelection(ranges) THEN prev ELSE SelectSeq(prev, Stays)

\* the widgets at the cell are removed whatever the new value is
widgetsAfterUpdateCellAlways(prev, row, column, newValue, sheetId) ==
    LET Stays(w) == ~(w.sheetId = sheetId /\ w.r = row /\ w.c = column)
    IN IF sheetId # "" THEN SelectSeq(prev, Stays) ELSE prev

\* afterUpdateCell(row, column, _, newValue) applied to the list
widgetsAfterUpdateCell(prev, row, column, newValue, sheetId) ==
    LET Stays(w) == ~(w.sheetId = sheetId /\ w.r = row /\ w.c = column)
    IN IF isCellEmpty(newValue) /\ sheetId # "" THEN SelectSeq(prev, Stays) ELSE prev

\* updateWidgetValue(id, value) applied to the list
widgetsAfterUpdateValue(prev, id, value) ==
    [k \in 1..Len(prev) |-> IF prev[k].id = id THEN [prev[k] EXCEPT !.value = value] ELSE prev[k]]

(***************************************************************************)
(* Groups and row heights (stack variant).  The effect that follows every  *)
(* change of the widget list, the sheets or the mode computes a height for *)
(* the first row of the merge range of each group, in the order of the     *)
(* groups, and stores the heights in the sheets (config.rowlen).  The      *)
(* computed heights are a function from <<sheetId, row>> to pixels; a row  *)
(* that is not in it has the default height.                               *)
(***************************************************************************)
defaultRowHeight == 19

\* `${widget.sheetId}-${widget.r}-${widget.c}`
groupKey(widget) == <<widget.sheetId, widget.r, widget.c>>

\* The keys of the Map in insertion order
RECURSIVE groupKeys(_, _)
groupKeys(ws, keys) ==
    IF ws = << >> THEN keys
    ELSE IF \E k \in 1..Len(keys) : keys[k] = groupKey(Head(ws))
         THEN groupKeys(Tail(ws), keys)
         ELSE groupKeys(Tail(ws), Append(keys, groupKey(Head(ws))))

groupedWidgets(ws) ==
    LET keys == groupKeys(ws, << >>)
    IN [g \in 1..Len(keys) |->
           LET InGroup(w) == groupKey(w) = keys[g]
               items == SelectSeq(ws, InGroup)
           IN [key |-> keys[g],
               cell |-> [sheetId |-> items[1].sheetId, r |-> items[1].r, c |-> items[1].c],
               items |-> items]]

\* getWidgetHeights(widget) for the templates without assets
getWidgetHeights(widget) ==
    IF widget.template = "note" THEN [edit |-> 28, preview |-> 36]
    ELSE [edit |-> 30, preview |-> 40]

\* group.items.reduce(... heights + (idx > 0 ? 8 : 0), 0)
RECURSIVE stackHeight(_, _, _)
stackHeight(items, md, idx) ==
    IF idx > Len(items) THEN 0
    ELSE (IF md = "preview" THEN getWidgetHeights(items[idx]).preview
          ELSE getWidgetHeights(items[idx]).edit)
         + (IF idx > 1 THEN 8 ELSE 0)
         + stackHeight(items, md, idx + 1)

\* Math.max(defaultRowHeight, stackHeight + (mode === "preview" ? 12 : 6))
desiredHeight(group, md) ==
    LET h == stackHeight(group.items, md, 1) + (IF md = "preview" THEN 12 ELSE 6)
    IN IF h > defaultRowHeight THEN h ELSE defaultRowHeight

getCurrentRowHeight(heights, sheetId, row) ==
    IF <<sheetId, row>> \in DOMAIN heights THEN heights[<<sheetId, row>>] ELSE defaultRowHeight

setRowHeightForSheet(heights, sheetId, row, height) ==
    [x \in DOMAIN heights \cup {<<sheetId, row>>} |->
        IF x = <<sheetId, row>> THEN height ELSE heights[x]]

RECURSIVE rangeTotal(_, _, _, _)
rangeTotal(heights, sheetId, startRow, rowSpan) ==
    IF rowSpan <= 0 THEN 0
    ELSE getCurrentRowHeight(heights, sheetId, startRow)
         + rangeTotal(heights, sheetId, startRow + 1, rowSpan - 1)

\* ensureRangeHeight(sheetId, startRow, rowSpan, requiredHeight): the heights after it
ensureRangeHeight(heights, sheetId, startRow, rowSpan, requiredHeight) ==
    LET currentTotal == rangeTotal(heights, sheetId, startRow, rowSpan)
        firstRowHeight == getCurrentRowHeight(heights, sheetId, startRow)
        shrunk == firstRowHeight - (currentTotal - requiredHeight)
    IN IF currentTotal = requiredHeight THEN heights
       ELSE IF currentTotal < requiredHeight
       THEN setRowHeightForSheet(heights, sheetId, startRow,
                                 firstRowHeight + (requiredHeight - currentTotal))
       ELSE setRowHeightForSheet(heights, sheetId, startRow,
                                 IF shrunk > defaultRowHeight THEN shrunk ELSE defaultRowHeight)

\* groupedWidgets.forEach(...) of the effect, from group g on
RECURSIVE ensureGroups(_, _, _, _, _)
ensureGroups(groups, g, file, md, heights) ==
    IF g > Len(groups) THEN heights
    ELSE LET sheet == FindSheet(file, groups[g].cell.sheetId)
             mergeRange == findMergeRange(sheet, groups[g].cell.r, groups[g].cell.c)
         IN IF sheet = << >> THEN ensureGroups(groups, g + 1, file, md, heights)
            ELSE ensureGroups(groups, g + 1, file, md,
                              ensureRangeHeight(heights, groups[g].cell.sheetId,
                                                mergeRange.r, mergeRange.rs,
                                                desiredHeight(groups[g], md)))

\* The row heights the effect stores for a widget list, sheets and mode
syncRowHeights(ws, file, md, vr) ==
    IF vr = "stack" THEN ensureGroups(groupedWidgets(ws), 1, file, md, << >>) ELSE << >>

(***************************************************************************)
(* Submit.  The validation errors are the set of the ids that have an      *)
(* entry in the error map (every entry holds the same message); the submit *)
(* result is the failure message or the list of the value records.         *)
(***************************************************************************)
\* an empty value is an error whether the widget is required or not
validationErrorsOfAll(ws) == {ws[k].id : k \in {j \in 1..Len(ws) : isCellEmpty(ws[j].value)}}

\* The keys of errors after widgets.forEach
validationErrorsOf(ws) ==
    {ws[k].id : k \in {j \in 1..Len(ws) : Truthy(ws[j].required) /\ isCellEmpty(ws[j].value)}}

\* `${String.fromCharCode(65 + widget.c)}${widget.r + 1}` as character codes
cellName(widget) == <<65 + widget.c>> \o numberToString(widget.r + 1)

\* The value records of the list, and the result of handleSubmit
submitResultOf(ws) ==
    IF validationErrorsOf(ws) # {}
    THEN [kind |-> "failure", values |-> << >>]
    ELSE [kind |-> "values",
          values |-> [k \in 1..Len(ws) |->
                         [cell |-> cellName(ws[k]), type |-> ws[k].template, value |-> ws[k].value]]]

(***************************************************************************)
(* The handlers of the page.  Each action is one handler, or one hook the  *)
(* workbook calls, together with the effects that follow the state change. *)
(* The overlay is not part of the page: its widget list and axis tables    *)
(* stay as they are, and it renders again when the workbook context        *)
(* changes.                                                                *)
(***************************************************************************)
OverlayKept ==
    UNCHANGED <<cellWidgets, currentSheetId, luckysheetfile, visibledatarow,
                visibledatacolumn, memo, rendered, reentered>>

\* The handler returns before setWidgets
addReturnsEarly(sheetId) == noSelection(selection) \/ sheetId = ""

\* addWidgetAtSelection(templateKey): a template is dropped or clicked
addWidgetAtSelection(templateKey, answers) ==
    LET currentSheet == getSheet(answers)
        sheetId == sheetIdOf(currentSheet)
        early == addReturnsEarly(sheetId)
        after == IF early THEN widgetInstances
                 ELSE IF variant = "replace"
                 THEN widgetsAfterAddReplace(widgetInstances, templateKey, sheetId,
                                             currentSheet, selection, nextId)
                 ELSE widgetsAfterAddStack(widgetInstances, templateKey, sheetId,
                                           currentSheet, selection, nextId)
        created == IF early THEN 0 ELSE Len(resolveTargetCells(selection[1], currentSheet))
    IN /\ nextId + created <= MaxIds
       /\ widgetInstances' = after
       /\ nextId' = nextId + created
       /\ UNCHANGED <<activeSheetId, selection, mode, variant, validationErrors, submitResult>>
       /\ OverlayKept
       /\ rowlen' = syncRowHeights(after, luckysheetfile, mode, variant)

\* handleDelete: Delete or Backspace is pressed
handleDelete(answers) ==
    LET currentSheetId_ == sheetIdOf(getSheet(answers))
        after == IF noSelection(selection) \/ currentSheetId_ = "" THEN widgetInstances
                 ELSE widgetsAfterRemove(widgetInstances, selection, currentSheetId_)
    IN /\ widgetInstances' = after
       /\ UNCHANGED <<activeSheetId, selection, mode, variant, nextId,
                      validationErrors, submitResult>>
       /\ OverlayKept
       /\ rowlen' = syncRowHeights(after, luckysheetfile, mode, variant)

\* clearSelectionContent: the button "clear content" (the cells of the
\* selection are cleared in the workbook, then the widgets are removed)
clearSelectionContent(answers) ==
    LET currentSheetId_ == sheetIdOf(getSheet(answers))
        after == IF noSelection(selection) \/ currentSheetId_ = "" THEN widgetInstances
                 ELSE widgetsAfterRemove(widgetInstances, selection, currentSheetId_)
    IN /\ variant = "stack"
       /\ widgetInstances' = after
       /\ UNCHANGED <<activeSheetId, selection, mode, variant, nextId,
                      validationErrors, submitResult>>
       /\ OverlayKept
       /\ rowlen' = syncRowHeights(after, luckysheetfile, mode, variant)

\* hooks.afterUpdateCell(row, column, oldValue, newValue)
afterUpdateCell(row, column, newValue, answers) ==
    LET after == widgetsAfterUpdateCell(widgetInstances, row, column, newValue,
                                        sheetIdOf(getSheet(answers)))
    IN /\ widgetInstances' = after
       /\ UNCHANGED <<activeSheetId, selection, mode, variant, nextId,
                      validationErrors, submitResult>>
       /\ OverlayKept
       /\ rowlen' = syncRowHeights(after, luckysheetfile, mode, variant)

\* updateWidgetValue(id, value): the user edits the control of a widget
updateWidgetValue(id, value) ==
    /\ \E k \in 1..Len(widgetInstances) :
          widgetInstances[k].id = id /\ widgetInstances[k].value # value
    /\ widgetInstances' = widgetsAfterUpdateValue(widgetInstances, id, value)
    /\ UNCHANGED <<activeSheetId, selection, mode, variant, nextId,
                   validationErrors, submitResult>>
    /\ OverlayKept
    /\ rowlen' = syncRowHeights(widgetInstances', luckysheetfile, mode, variant)

\* handleSubmit: the submit button
handleSubmit ==
    /\ validationErrors' = validationErrorsOf(widgetInstances)
    /\ submitResult' = submitResultOf(widgetInstances)
    /\ UNCHANGED <<widgetInstances, activeSheetId, selection, mode, variant, nextId, rowlen>>
    /\ OverlayKept

\* The selection of the workbook changes; hooks.afterSelectionChange runs
\* when there is a new range
afterSelectionChange(sel) ==
    /\ sel # selection
    /\ selection' = sel
    /\ activeSheetId' = IF ~noSelection(sel) /\ activeSheetId = ""
                        THEN currentSheetId ELSE activeSheetId
    /\ UNCHANGED <<widgetInstances, mode, variant, nextId, validationErrors,
                   submitResult, rowlen>>
    /\ OverlayKept

\* The user activates another sheet; hooks.afterActivateSheet (stack variant)
afterActivateSheet(id) ==
    /\ id # currentSheetId
    /\ currentSheetId' = id
    /\ selection' = Undef
    /\ activeSheetId' = IF variant = "stack" THEN id ELSE activeSheetId
    /\ Rerender(cellWidgets, id, luckysheetfile, visibledatarow, visibledatacolumn)
    /\ reentered' = {}
    /\ UNCHANGED <<widgetInstances, mode, variant, nextId, validationErrors,
                   submitResult, rowlen>>
    /\ UNCHANGED <<cellWidgets, luckysheetfile, visibledatarow, visibledatacolumn>>

\* The effect that follows a change of the sheets: the active sheet id of
\* the page follows the workbook
syncActiveSheetId ==
    LET id == sheetIdOf(getSheet(TRUE))
    IN /\ id # "" /\ id # activeSheetId
       /\ activeSheetId' = id
       /\ UNCHANGED <<widgetInstances, selection, mode, variant, nextId,
                      validationErrors, submitResult, rowlen>>
       /\ OverlayKept

\* Cells of the active sheet are merged or unmerged (onChange delivers the sheets)
storyMergeChange(m) ==
    /\ SheetMerge(FindSheet(luckysheetfile, currentSheetId)) # m
    /\ FindSheet(luckysheetfile, currentSheetId) # << >>
    /\ luckysheetfile' = WithMerge(luckysheetfile, currentSheetId, m)
    /\ Rerender(cellWidgets, currentSheetId, luckysheetfile', visibledatarow, visibledatacolumn)
    /\ reentered' = {}
    /\ UNCHANGED <<widgetInstances, activeSheetId, selection, mode, variant, nextId,
                   validationErrors, submitResult>>
    /\ UNCHANGED <<cellWidgets, currentSheetId, visibledatarow, visibledatacolumn>>
    /\ rowlen' = syncRowHeights(widgetInstances, luckysheetfile', mode, variant)

\* setMode: the button that switches between edit and preview (stack variant)
toggleMode ==
    /\ variant = "stack"
    /\ mode' = IF mode = "edit" THEN "preview" ELSE "edit"
    /\ UNCHANGED <<widgetInstances, activeSheetId, selection, variant, nextId,
                   validationErrors, submitResult>>
    /\ OverlayKept
    /\ rowlen' = syncRowHeights(widgetInstances, luckysheetfile, mode', variant)

(***************************************************************************)
(* The page with two sheets.  The workbook's selection is undefined, empty,*)
(* one of the cells (0,0) and (1,1), the block of four cells, or two       *)
(* ranges that overlap in the cell (0,0); sheet "s1" has no merge or the   *)
(* 2x2 merge at (0,0) or the merge of the cells (1,0) and (1,1).           *)
(***************************************************************************)
StoryCells == {<<0, 0>>, <<1, 1>>}

StorySelections ==
    {Undef, <<(<< >>)>>}
    \cup { <<(<<Range(cell[1], cell[1], cell[2], cell[2])>>)>> : cell \in StoryCells }
    \cup { <<(<<Range(0, 1, 0, 1)>>)>>,
           <<(<<Range(0, 0, 0, 1), Range(0, 1, 0, 0)>>)>> }

StoryMerges ==
    {Undef,
     <<(<<Block(Num(0), Num(0), Num(2), Num(2))>>)>>,
     <<(<<Block(Num(1), Num(0), Num(1), Num(2))>>)>>}

storyMergesOf(id) == IF id = "s1" THEN StoryMerges ELSE {Undef}

\* The new values of a cell update: undefined, null, "", {}, and the
\* non-empty values 0 and an object with a key
CellValues == {"undefined", "null", "", "{}", "0", "{v}"}

WidgetValues == {"", "x"}

InitPage(variants) ==
    /\ variant \in variants
    /\ widgetInstances = << >>
    /\ activeSheetId = IF variant = "stack" THEN "s1" ELSE ""
    /\ selection = Undef
    /\ mode = "edit"
    /\ nextId = 0
    /\ validationErrors = {}
    /\ submitResult = [kind |-> "none", values |-> << >>]
    /\ rowlen = << >>
    /\ cellWidgets = <<(<< >>)>>
    /\ currentSheetId = "s1"
    /\ luckysheetfile = <<Sheet("s1", Undef), Sheet("s2", Undef)>>
    /\ visibledatarow = FullTable(20)
    /\ visibledatacolumn = FullTable(50)
    /\ memo = UseMemo(NoMemo, cellWidgets, currentSheetId)
    /\ rendered = CellWidgets(NoMemo, cellWidgets, currentSheetId, luckysheetfile,
                              visibledatarow, visibledatacolumn)
    /\ reentered = {}

InitStory == InitPage({"replace", "stack"})

NextStory ==
    \/ \E answers \in BOOLEAN : addWidgetAtSelection("text", answers)
    \/ \E answers \in BOOLEAN : handleDelete(answers)
    \/ \E answers \in BOOLEAN : clearSelectionContent(answers)
    \/ \E cell \in StoryCells, newValue \in {"", "0"}, answers \in BOOLEAN :
          afterUpdateCell(cell[1], cell[2], newValue, answers)
    \/ \E id \in 0..(MaxIds - 1), value \in WidgetValues : updateWidgetValue(id, value)
    \/ \E sel \in StorySelections : afterSelectionChange(sel)
    \/ \E id \in {"s1", "s2"} : afterActivateSheet(id)
    \/ syncActiveSheetId
    \/ \E m \in storyMergesOf(currentSheetId) : storyMergeChange(m)

SpecStory == InitStory /\ [][NextStory]_vars

(***************************************************************************)
(* The page with the cell updates of the workbook: widgets are added at    *)
(* single cells of the two sheets, and the workbook reports updates of the *)
(* cells (0,0), (0,1) and (1,1) with every kind of new value.              *)
(***************************************************************************)
CellSelections ==
    {Undef} \cup { <<(<<Range(cell[1], cell[1], cell[2], cell[2])>>)>> : cell \in StoryCells }

UpdatedCells == StoryCells \cup {<<0, 1>>}

InitCells == InitPage({"replace", "stack"})

NextCells ==
    \/ \E answers \in BOOLEAN : addWidgetAtSelection("text", answers)
    \/ \E cell \in UpdatedCells, newValue \in CellValues, answers \in BOOLEAN :
          afterUpdateCell(cell[1], cell[2], newValue, answers)
    \/ \E sel \in CellSelections : afterSelectionChange(sel)
    \/ \E id \in {"s1", "s2"} : afterActivateSheet(id)

SpecCells == InitCells /\ [][NextCells]_vars

(***************************************************************************)
(* The page as a form: required widgets ("text") and widgets that are not  *)
(* required ("note") are added at single cells of the first sheet, their   *)
(* values are edited, widgets are deleted, and the form is submitted.      *)
(***************************************************************************)
InitSubmit == InitPage({"replace", "stack"})

NextSubmit ==
    \/ \E templateKey \in TemplateKeys : addWidgetAtSelection(templateKey, TRUE)
    \/ \E id \in 0..(MaxIds - 1), value \in WidgetValues : updateWidgetValue(id, value)
    \/ \E sel \in CellSelections : afterSelectionChange(sel)
    \/ handleDelete(TRUE)
    \/ handleSubmit

SpecSubmit == InitSubmit /\ [][NextSubmit]_vars

(***************************************************************************)
(* The stack variant with its row heights: widgets of both templates are   *)
(* added at the cells (0,0), (0,1) and (1,1) of the first sheet, cells are *)
(* merged and unmerged, and the mode is switched.                          *)
(***************************************************************************)
HeightSelections ==
    { <<(<<Range(cell[1], cell[1], cell[2], cell[2])>>)>> : cell \in StoryCells \cup {<<0, 1>>} }

InitHeights == InitPage({"stack"})

NextHeights ==
    \/ \E templateKey \in TemplateKeys : addWidgetAtSelection(templateKey, TRUE)
    \/ \E sel \in HeightSelections : afterSelectionChange(sel)
    \/ \E m \in storyMergesOf(currentSheetId) : storyMergeChange(m)
    \/ handleDelete(TRUE)
    \/ toggleMode

SpecHeights == InitHeights /\ [][NextHeights]_vars

(***************************************************************************)
(* Vocabulary of the properties.                                           *)
(***************************************************************************)
\* The widgets of the active sheet, and the merge entries of the active sheet
Shown == FilterWidgets(cellWidgets, currentSheetId)
ActiveEntries == MergeEntries(SheetMerge(FindSheet(luckysheetfile, currentSheetId)))

WellFormed(entry) ==
    /\ entry # NullBlock
    /\ IsNum(entry[1].r) /\ IsNum(entry[1].c) /\ IsNum(entry[1].rs) /\ IsNum(entry[1].cs)

\* The cell (r, c) lies in the region [R, R+rs) x [C, C+cs) of the entry
Covers(entry, r, c) ==
    /\ WellFormed(entry)
    /\ r \in Val(entry[1].r)..(Val(entry[1].r) + Val(entry[1].rs) - 1)
    /\ c \in Val(entry[1].c)..(Val(entry[1].c) + Val(entry[1].cs) - 1)

Unmerged(w) == \A k \in 1..Len(ActiveEntries) : ~Covers(ActiveEntries[k], w.r, w.c)

NoSize(w) == w.width = Undef /\ w.height = Undef
NoOffset(w) == w.offsetX = Undef /\ w.offsetY = Undef

\* The rectangle of rows R0..R1 and columns C0..C1 is in the tables, and the
\* element has the rectangle's bounding box
InTables(R0, C0, R1, C1) ==
    {R0, R1} \subseteq DOMAIN visibledatarow /\ {C0, C1} \subseteq DOMAIN visibledatacolumn

HasBox(e, R0, C0, R1, C1) ==
    /\ e.left = <<visibledatacolumn[C0][1]>>
    /\ e.top = <<visibledatarow[R0][1]>>
    /\ e.width = <<visibledatacolumn[C1][2] - visibledatacolumn[C0][1] - 1>>
    /\ e.height = <<visibledatarow[R1][2] - visibledatarow[R0][1] - 1>>

\* The tables of the example: rows [0,20), [20,40), columns [0,50), [50,100)
ExampleTables ==
    /\ {0, 1} \subseteq DOMAIN visibledatarow /\ {0, 1} \subseteq DOMAIN visibledatacolumn
    /\ visibledatarow[0] = <<0, 20>> /\ visibledatarow[1] = <<20, 40>>
    /\ visibledatacolumn[0] = <<0, 50>> /\ visibledatacolumn[1] = <<50, 100>>

\* C1: a widget anchored at an unmerged cell (r, c) that is in both tables,
\* with no explicit size and no offsets, is placed at left = start of column c,
\* top = start of row r, width = end of column c - left - 1, height = end of
\* row r - top - 1; with the example tables and anchor (0,0) that is
\* {0, 0, 49, 19}.
C1_UnmergedCellPlacement ==
    \A i \in 1..Len(Shown) :
        LET w == Shown[i]
        IN (Unmerged(w) /\ NoSize(w) /\ NoOffset(w) /\ InTables(w.r, w.c, w.r, w.c)) =>
              /\ rendered.container
              /\ HasBox(rendered.elements[i], w.r, w.c, w.r, w.c)
              /\ (ExampleTables /\ w.r = 0 /\ w.c = 0) =>
                    /\ rendered.elements[i].left = <<0>>
                    /\ rendered.elements[i].top = <<0>>
                    /\ rendered.elements[i].width = <<49>>
                    /\ rendered.elements[i].height = <<19>>

C1_Witness ==
    /\ ExampleTables
    /\ Len(Shown) = 1 /\ Shown[1].r = 0 /\ Shown[1].c = 0
    /\ Unmerged(Shown[1]) /\ NoSize(Shown[1]) /\ NoOffset(Shown[1])
    /\ rendered.container
    /\ rendered.elements[1].width = <<49>> /\ rendered.elements[1].height = <<19>>

\* C2: a widget anchored at any cell of a merge region {r, c, rs, cs} of the
\* active sheet, with no explicit size and no offsets, is placed at the
\* region's bounding box, whichever cell of the region is the anchor: left =
\* start of column c, top = start of row r, width = end of column c+cs-1 -
\* left - 1, height = end of row r+rs-1 - top - 1 (the four edges being in the
\* tables); a 2x2 merge at (0,0) with anchor (1,1) and the example tables gives
\* {0, 0, 99, 39}.
C2_MergeBoundingBox ==
    \A i \in 1..Len(Shown) : \A k \in 1..Len(ActiveEntries) :
        LET w == Shown[i]
            b == ActiveEntries[k][1]
            R1 == Val(b.r) + Val(b.rs) - 1
            C1 == Val(b.c) + Val(b.cs) - 1
        IN (/\ Covers(ActiveEntries[k], w.r, w.c)
            /\ NoSize(w) /\ NoOffset(w)
            /\ InTables(Val(b.r), Val(b.c), R1, C1)) =>
              /\ rendered.container
              /\ HasBox(rendered.elements[i], Val(b.r), Val(b.c), R1, C1)
              /\ (ExampleTables /\ ActiveEntries[k] = Block(<<0>>, <<0>>, <<2>>, <<2>>)) =>
                    /\ rendered.elements[i].left = <<0>>
                    /\ rendered.elements[i].top = <<0>>
                    /\ rendered.elements[i].width = <<99>>
                    /\ rendered.elements[i].height = <<39>>

C2_Witness ==
    /\ ExampleTables
    /\ ActiveEntries = <<Block(<<0>>, <<0>>, <<2>>, <<2>>)>>
    /\ Len(Shown) = 1 /\ Shown[1].r = 1 /\ Shown[1].c = 1
    /\ NoSize(Shown[1]) /\ NoOffset(Shown[1])
    /\ rendered.container
    /\ rendered.elements[1].left = <<0>> /\ rendered.elements[1].top = <<0>>
    /\ rendered.elements[1].width = <<99>> /\ rendered.elements[1].height = <<39>>

\* The rows and columns <<R0, C0, R1, C1>> of the rectangle a widget stands
\* for: the merge region that covers its anchor, or the anchor cell.
RegionOf(w) ==
    LET ks == {k \in 1..Len(ActiveEntries) : Covers(ActiveEntries[k], w.r, w.c)}
    IN IF ks = {} THEN <<w.r, w.c, w.r, w.c>>
       ELSE LET b == ActiveEntries[CHOOSE k \in ks : \A j \in ks : k <= j][1]
            IN <<Val(b.r), Val(b.c), Val(b.r) + Val(b.rs) - 1, Val(b.c) + Val(b.cs) - 1>>

RegionInTables(w) == InTables(RegionOf(w)[1], RegionOf(w)[2], RegionOf(w)[3], RegionOf(w)[4])

\* The element is a placement: its four coordinates are numbers
IsPlacement(e) == IsNum(e.left) /\ IsNum(e.top) /\ IsNum(e.width) /\ IsNum(e.height)

KeysRendered == {rendered.elements[i].key : i \in 1..Len(rendered.elements)}

\* C3: a widget whose effective rectangle has its top or bottom row absent
\* from the row table, or its left or right column absent from the column
\* table, is excluded from the rendered output, and no element with an
\* undefined or NaN coordinate is emitted.
C3_AbsentIndexOmitted ==
    /\ \A i \in 1..Len(Shown) : ~RegionInTables(Shown[i]) => Shown[i].id \notin KeysRendered
    /\ \A i \in 1..Len(rendered.elements) : IsPlacement(rendered.elements[i])

\* The geometry the current tables give a widget: the bounding box of its
\* region, the explicit size in place of the default, the offsets added.
ExpectedOf(w) ==
    LET g == RegionOf(w)
        l == visibledatacolumn[g[2]][1]
        t == visibledatarow[g[1]][1]
    IN [left |-> l + (IF w.offsetX = Undef THEN 0 ELSE w.offsetX[1]),
        top |-> t + (IF w.offsetY = Undef THEN 0 ELSE w.offsetY[1]),
        width |-> IF w.width = Undef THEN visibledatacolumn[g[4]][2] - l - 1 ELSE w.width[1],
        height |-> IF w.height = Undef THEN visibledatarow[g[3]][2] - t - 1 ELSE w.height[1]]

HasExpected(e, w) ==
    /\ e.left = <<ExpectedOf(w).left>> /\ e.top = <<ExpectedOf(w).top>>
    /\ e.width = <<ExpectedOf(w).width>> /\ e.height = <<ExpectedOf(w).height>>

\* C4: in the pass that follows a change by which a widget's rectangle
\* re-enters the visible tables (it was not in them before the change), the
\* widget is in the output with the geometry that pass's tables give it.
C4_ReentryPlacement ==
    \A i \in 1..Len(Shown) :
        Shown[i].id \in reentered =>
            /\ rendered.container
            /\ rendered.elements[i].key = Shown[i].id
            /\ HasExpected(rendered.elements[i], Shown[i])

C4_Witness ==
    /\ reentered # {}
    /\ rendered.container
    /\ \E i \in 1..Len(Shown) :
          /\ Shown[i].id \in reentered
          /\ rendered.elements[i].top # <<0>>
          /\ HasExpected(rendered.elements[i], Shown[i])

\* C5: the resolved width (height) of a widget with an explicit width
\* (height) is that value, for every axis table and merge map, also when the
\* value is larger or smaller than the pixel span of the cell or merge.
C5_ExplicitSizeWins ==
    \A i \in 1..Len(Shown) :
        /\ Shown[i].width # Undef =>
              rendered.container /\ rendered.elements[i].width = Shown[i].width
        /\ Shown[i].height # Undef =>
              rendered.container /\ rendered.elements[i].height = Shown[i].height

\* an explicit width above the span of a visible region, an explicit height below it
C5_Witness ==
    /\ rendered.container
    /\ \E i \in 1..Len(Shown) :
          LET w == Shown[i]
              g == RegionOf(w)
          IN /\ RegionInTables(w)
             /\ w.width # Undef /\ w.height # Undef
             /\ w.width[1] > visibledatacolumn[g[4]][2] - visibledatacolumn[g[2]][1] - 1
             /\ w.height[1] < visibledatarow[g[3]][2] - visibledatarow[g[1]][1] - 1
             /\ rendered.elements[i].width = w.width
             /\ rendered.elements[i].height = w.height

\* C6: offsetX and offsetY (0 when absent) are added to left and top and
\* change nothing else: the element of a widget has the width and height of
\* the element of the same widget without offsets, and its left and top are
\* that element's left and top plus offsetX and offsetY.
C6_OffsetsTranslateOnly ==
    \A i \in 1..Len(Shown) :
        LET w == Shown[i]
            e == rendered.elements[i]
            e0 == WidgetElement([w EXCEPT !.offsetX = Undef, !.offsetY = Undef],
                                currentSheetId, luckysheetfile,
                                visibledatarow, visibledatacolumn)
            dx == IF w.offsetX = Undef THEN 0 ELSE w.offsetX[1]
            dy == IF w.offsetY = Undef THEN 0 ELSE w.offsetY[1]
        IN rendered.container =>
              /\ e.width = e0.width /\ e.height = e0.height
              /\ IsNum(e0.left) => e.left = <<e0.left[1] + dx>>
              /\ IsNum(e0.top) => e.top = <<e0.top[1] + dy>>
              /\ ~IsNum(e0.left) => ~IsNum(e.left)
              /\ ~IsNum(e0.top) => ~IsNum(e.top)

C6_Witness ==
    /\ rendered.container
    /\ \E i \in 1..Len(Shown) :
          /\ Shown[i].offsetX = <<7>> /\ Shown[i].offsetY = <<-3>>
          /\ RegionInTables(Shown[i])
          /\ rendered.elements[i].left = <<visibledatacolumn[RegionOf(Shown[i])[2]][1] + 7>>
          /\ rendered.elements[i].top = <<visibledatarow[RegionOf(Shown[i])[1]][1] - 3>>

\* The events of a class that reaches the element go on to the grid
ReachesGrid(e, prop) == ~Deliver(e, prop).propagationStopped

\* C7: every element rendered for a widget with passthroughEvents = true has
\* pointer events disabled and has no event-stopping handler: an event of any
\* class delivered to it goes on to the grid.
C7_PassthroughNonInteractive ==
    \A i \in 1..Len(Shown) :
        (rendered.container /\ Shown[i].passthroughEvents = <<TRUE>>) =>
            /\ rendered.elements[i].pointerEvents = "none"
            /\ \A p \in EventProps :
                  /\ rendered.elements[i].handlers[p] = "undefined"
                  /\ ReachesGrid(rendered.elements[i], p)

C7_Witness ==
    /\ rendered.container
    /\ \E i \in 1..Len(Shown) :
          /\ Shown[i].passthroughEvents = <<TRUE>>
          /\ rendered.elements[i].pointerEvents = "none"
          /\ ReachesGrid(rendered.elements[i], "onMouseDown")

\* C8: every element rendered for a widget whose passthroughEvents is false
\* or absent keeps pointer events enabled and stops the propagation of click,
\* mouse-down, double-click, key-down and context-menu events: none of them
\* goes on to the grid.
C8_EventsContained ==
    \A i \in 1..Len(Shown) :
        (rendered.container /\ Shown[i].passthroughEvents # <<TRUE>>) =>
            /\ rendered.elements[i].pointerEvents = "undefined"
            /\ \A p \in {"onClick", "onMouseDown", "onDoubleClick", "onKeyDown", "onContextMenu"} :
                  ~ReachesGrid(rendered.elements[i], p)

\* a widget without the field and a widget with passthroughEvents = false
C8_Witness ==
    /\ rendered.container
    /\ \E i, j \in 1..Len(Shown) :
          /\ Shown[i].passthroughEvents = Undef
          /\ Shown[j].passthroughEvents = <<FALSE>>
          /\ ~ReachesGrid(rendered.elements[i], "onContextMenu")
          /\ ~ReachesGrid(rendered.elements[j], "onKeyDown")

\* The sheet list with the null and malformed entries of every merge map removed
Repaired(file) ==
    [i \in 1..Len(file) |->
        IF file[i].merge = Undef THEN file[i]
        ELSE Sheet(file[i].id, <<SelectSeq(file[i].merge[1], WellFormed)>>)]

Malformed == {k \in 1..Len(ActiveEntries) : ~WellFormed(ActiveEntries[k])}

\* C9: with null or malformed entries in the merge map (entries that lack
\* r, c, rs or cs), the pass does not raise and its output is the output for
\* the map with those entries removed: every widget gets the placement it
\* would get without them.
C9_MalformedMergeTolerated ==
    Malformed # {} =>
        /\ ~rendered.raised
        /\ rendered = CellWidgets(NoMemo, cellWidgets, currentSheetId, Repaired(luckysheetfile),
                                  visibledatarow, visibledatacolumn)

\* a null entry ahead of a block, two widgets shown, one of them in the block
C9_Witness ==
    /\ Malformed # {} /\ NullBlock \in {ActiveEntries[k] : k \in 1..Len(ActiveEntries)}
    /\ rendered.container /\ Len(rendered.elements) = 2
    /\ \E i, j \in 1..2 :
          /\ Unmerged(Shown[i]) /\ ~Unmerged(Shown[j])
          /\ rendered.elements[i].width = <<49>>
          /\ rendered.elements[j].width = <<99>>

\* C10: when no sheet of the sheet list has the active sheet id, the pass
\* does not fail and every widget is omitted from the output.
C10_MissingSheetOmitted ==
    FindSheet(luckysheetfile, currentSheetId) = << >> =>
        ~rendered.raised /\ ~rendered.container

\* The positions of the merge entries whose region contains the widget's anchor
Covering(w) == {k \in 1..Len(ActiveEntries) : Covers(ActiveEntries[k], w.r, w.c)}

\* C11: when two or more merge regions of the map contain the anchor of a
\* widget, the pass does not fail and the widget is placed by the first of
\* them in the map's key enumeration order, in every pass over that map.
C11_FirstOverlappingRegion ==
    \A i \in 1..Len(Shown) :
        Cardinality(Covering(Shown[i])) >= 2 =>
            LET k == CHOOSE k \in Covering(Shown[i]) : \A j \in Covering(Shown[i]) : k <= j
                b == ActiveEntries[k][1]
                w == Shown[i]
                e == rendered.elements[i]
            IN /\ ~rendered.raised /\ rendered.container
               /\ e.left = JsAdd(<<visibledatacolumn[b.c[1]][1]>>, Nullish(w.offsetX, <<0>>))
               /\ e.top = JsAdd(<<visibledatarow[b.r[1]][1]>>, Nullish(w.offsetY, <<0>>))
               /\ w.width = Undef =>
                     e.width = <<visibledatacolumn[b.c[1] + b.cs[1] - 1][2]
                                   - visibledatacolumn[b.c[1]][1] - 1>>
               /\ w.height = Undef =>
                     e.height = <<visibledatarow[b.r[1] + b.rs[1] - 1][2]
                                    - visibledatarow[b.r[1]][1] - 1>>

\* the one-row block ahead of the 2x2 block, both containing the anchor (1,1):
\* the widget has the one-row block's box
C11_Witness ==
    /\ ActiveEntries = <<Block(<<1>>, <<0>>, <<1>>, <<2>>), Block(<<0>>, <<0>>, <<2>>, <<2>>)>>
    /\ rendered.container
    /\ \E i \in 1..Len(Shown) :
          /\ Shown[i].r = 1 /\ Shown[i].c = 1 /\ NoSize(Shown[i]) /\ NoOffset(Shown[i])
          /\ rendered.elements[i].top = <<20>> /\ rendered.elements[i].height = <<19>>
          /\ rendered.elements[i].left = <<0>> /\ rendered.elements[i].width = <<99>>

\* C12: a pass leaves its inputs as they were: the widget list with every
\* field of every descriptor, the sheets with their merge maps, both axis
\* tables and the active sheet id are the same after a render as before it;
\* and nothing kept from earlier passes enters the result: the output is the
\* output of a component that renders for the first time.
C12_PassLeavesInputs ==
    [][Refresh =>
          /\ UNCHANGED <<cellWidgets, currentSheetId, luckysheetfile,
                         visibledatarow, visibledatacolumn>>
          /\ rendered' = CellWidgets(NoMemo, cellWidgets, currentSheetId, luckysheetfile,
                                     visibledatarow, visibledatacolumn)]_vars

\* a pass has run on a list from which the filter drops a widget
C12_Witness ==
    /\ cellWidgets # Undef
    /\ Len(Shown) < Len(cellWidgets[1])
    /\ rendered.container
    /\ memo.deps = <<currentSheetId, cellWidgets>>

\* C13: after any sequence of snapshot changes (scroll, resize, merge-map
\* change, widget edit) the output of the latest pass is the output of
\* resolving the latest snapshot alone, whatever the earlier snapshots and
\* outputs were; a pass repeated on an unchanged snapshot gives it again.
C13_LastSnapshotWins ==
    rendered = CellWidgets(NoMemo, cellWidgets, currentSheetId, luckysheetfile,
                           visibledatarow, visibledatacolumn)

\* a pass after a change that brought a merged widget back into view
C13_Witness ==
    /\ reentered # {} /\ ActiveEntries # << >>
    /\ rendered.container /\ IsPlacement(rendered.elements[1])
    /\ ~Unmerged(Shown[1])

\* The descriptors of a list that belong on a sheet: those with no sheetId
\* and those whose sheetId is the sheet's id, in the order of the list
RECURSIVE PassingOf(_, _)
PassingOf(list, sid) ==
    IF list = << >> THEN << >>
    ELSE (IF Head(list).sheetId \in {"", sid} THEN <<Head(list)>> ELSE << >>)
         \o PassingOf(Tail(list), sid)

HostList == IF cellWidgets = Undef THEN << >> ELSE cellWidgets[1]

\* C14: after every change of the widget list (a descriptor added, removed,
\* or moved to another sheet) and every change of the active sheet, the
\* memoised filtered list is the filter of the list and sheet as they are now,
\* and the output has the elements of exactly those descriptors.
C14_MemoNeverStale ==
    /\ memo.value = PassingOf(HostList, currentSheetId)
    /\ Len(rendered.elements) = Len(PassingOf(HostList, currentSheetId))
    /\ \A k \in 1..Len(rendered.elements) :
          rendered.elements[k].key = PassingOf(HostList, currentSheetId)[k].id

\* sheet "s2" is active, the list holds widget w2 moved to sheet "s2" ahead of
\* a widget of sheet "s1", and the output is the element of w2 alone
C14_Witness ==
    /\ currentSheetId = "s2"
    /\ Len(HostList) = 2 /\ HostList[1].id = "w2" /\ HostList[1].sheetId = "s2"
    /\ HostList[2].sheetId = "s1"
    /\ Len(rendered.elements) = 1 /\ rendered.elements[1].key = "w2"
    /\ Len(memo.value) = 1

\* C15: in every pass, also right after the active sheet is switched, every
\* element of the output is the element of a descriptor of the list whose
\* sheetId is absent or is the active sheet id, and there are as many
\* elements as such descriptors: no widget of another sheet is placed.
C15_OnlyActiveSheetWidgets ==
    LET own == {p \in 1..Len(HostList) : HostList[p].sheetId \in {"", currentSheetId}}
    IN /\ Len(rendered.elements) = Cardinality(own)
       /\ \A k \in 1..Len(rendered.elements) :
             \E p \in own :
                rendered.elements[k] = WidgetElement(HostList[p], currentSheetId, luckysheetfile,
                                                     visibledatarow, visibledatacolumn)

\* a list with a widget of sheet "s1" and a widget of sheet "s2": one element
C15_Witness ==
    /\ Len(HostList) = 2
    /\ {HostList[1].sheetId, HostList[2].sheetId} = {"s1", "s2"}
    /\ rendered.container /\ Len(rendered.elements) = 1

\* The element of the last descriptor of a list in the output of a render of
\* that list on the current snapshot
LastElementOf(list) ==
    LET out == CellWidgets(NoMemo, <<list>>, currentSheetId, luckysheetfile,
                           visibledatarow, visibledatacolumn)
    IN out.elements[Len(out.elements)]

\* C16: the element of a descriptor (placement and event mode) is the same
\* in every list that contains the descriptor, on the same snapshot: it is
\* the element the descriptor gets alone, and the element it gets behind any
\* other descriptor, one with the same anchor or the same id included.
C16_IndependentOfOtherWidgets ==
    \A i \in 1..Len(Shown) :
        /\ rendered.container
        /\ rendered.elements[i] = LastElementOf(<<Shown[i]>>)
        /\ \A x \in HostWidgets : rendered.elements[i] = LastElementOf(<<x, Shown[i]>>)

\* two widgets with the id "w1" at different anchors, both placed
C16_Witness ==
    /\ Len(Shown) = 2 /\ Shown[1].id = Shown[2].id
    /\ <<Shown[1].r, Shown[1].c>> # <<Shown[2].r, Shown[2].c>>
    /\ rendered.container
    /\ rendered.elements[1].left # rendered.elements[2].left
    /\ rendered.elements[1].pointerEvents # rendered.elements[2].pointerEvents

\* C17: a widget with only an explicit height gets that height and the
\* default width (right - left - 1 of its region), a widget with only an
\* explicit width gets that width and the default height (bottom - top - 1),
\* and an explicit 0 is the resolved size, not the default.
C17_OverridesIndependent ==
    \A i \in 1..Len(Shown) :
        LET w == Shown[i]
            g == RegionOf(w)
            e == rendered.elements[i]
        IN RegionInTables(w) =>
              /\ rendered.container
              /\ (w.width = Undef /\ w.height # Undef) =>
                    /\ e.height = w.height
                    /\ e.width = <<visibledatacolumn[g[4]][2] - visibledatacolumn[g[2]][1] - 1>>
              /\ (w.width # Undef /\ w.height = Undef) =>
                    /\ e.width = w.width
                    /\ e.height = <<visibledatarow[g[3]][2] - visibledatarow[g[1]][1] - 1>>
              /\ w.width = Num(0) => e.width = Num(0)
              /\ w.height = Num(0) => e.height = Num(0)

\* only a height, of 0, on a merge region 99 wide and 39 high
C17_Witness ==
    /\ rendered.container
    /\ Shown[1].width = Undef /\ Shown[1].height = Num(0)
    /\ RegionInTables(Shown[1])
    /\ RegionOf(Shown[1]) = <<0, 0, 1, 1>>
    /\ visibledatarow[1][2] - visibledatarow[0][1] - 1 = 39
    /\ rendered.elements[1].width = <<99>>
    /\ rendered.elements[1].height = <<0>>

\* The positions of the input list whose descriptor passes the sheet filter
PassingPositions ==
    {p \in 1..Len(HostList) : HostList[p].sheetId \in {"", currentSheetId}}

\* The k-th passing position in input order
PassingPosition(k) ==
    CHOOSE p \in PassingPositions : Cardinality({q \in PassingPositions : q < p}) = k - 1

\* C18: the output has exactly one element per descriptor that passes the
\* sheet filter, the k-th element being keyed by the id of the k-th passing
\* descriptor of the input list; when no descriptor passes, or the list is
\* absent, the output has no element and no container.
C18_OneElementPerPassingWidget ==
    /\ ~rendered.raised
    /\ rendered.container <=> PassingPositions # {}
    /\ DOMAIN rendered.elements = 1..Cardinality(PassingPositions)
    /\ \A k \in DOMAIN rendered.elements :
          rendered.elements[k].key = HostList[PassingPosition(k)].id

\* a list of two widgets of the other sheet: nothing is rendered
C18_Witness ==
    /\ Len(HostList) = 2
    /\ PassingPositions = {}
    /\ ~rendered.container
    /\ rendered.elements = << >>

\* The positions of the input list whose descriptor has no sheetId
Unbound == {p \in 1..Len(HostList) : HostList[p].sheetId = ""}

\* The place in the output of the descriptor at a position of the input list
RankOf(p) == Cardinality({q \in PassingPositions : q <= p})

\* C19: a descriptor without sheetId is in the output whichever sheet is
\* active, after any sequence of sheet switches, and its element has the
\* geometry of its region in the merge map of the sheet that is active.
C19_UnboundWidgetFollowsActiveSheet ==
    \A p \in Unbound :
        /\ rendered.container
        /\ RankOf(p) \in DOMAIN rendered.elements
        /\ rendered.elements[RankOf(p)].key = HostList[p].id
        /\ RegionInTables(HostList[p]) =>
              HasExpected(rendered.elements[RankOf(p)], HostList[p])

\* after a switch to sheet "s2": the widget at (0,0) is placed on its own
\* cell, although the map of sheet "s1" has a 2x2 region there
C19_Witness ==
    /\ currentSheetId = "s2"
    /\ FindSheet(luckysheetfile, "s2") # << >>
    /\ \E k \in 1..Len(MergeEntries(SheetMerge(FindSheet(luckysheetfile, "s1")))) :
          MergeEntries(SheetMerge(FindSheet(luckysheetfile, "s1")))[k]
              = Block(Num(0), Num(0), Num(2), Num(2))
    /\ \E p \in Unbound :
          /\ RankOf(p) = 2
          /\ HostList[p].r = 0 /\ HostList[p].c = 0
          /\ RegionOf(HostList[p]) = <<0, 0, 0, 0>>
          /\ rendered.elements[2].width = <<49>>
          /\ rendered.elements[2].height = <<19>>

\* The offsets of an axis table do not decrease with the index
Monotone(table) ==
    /\ \A i \in DOMAIN table : table[i][1] <= table[i][2]
    /\ \A i, j \in DOMAIN table : i < j => table[i][2] <= table[j][1]

\* The pixels between the start of the first and the end of the last column
\* (row) of a widget's region
ColSpan(w) == visibledatacolumn[RegionOf(w)[4]][2] - visibledatacolumn[RegionOf(w)[2]][1]
RowSpan(w) == visibledatarow[RegionOf(w)[3]][2] - visibledatarow[RegionOf(w)[1]][1]

SelectedRanges == IF selection = Undef THEN << >> ELSE selection[1]

\* The anchor of a cell in a sheet: the first cell of the merge region that
\* covers it, the cell itself when no region does or there is no sheet
AnchorIn(sheet, cell) ==
    LET entries == MergeEntries(SheetMerge(sheet))
        ks == {k \in 1..Len(entries) : Covers(entries[k], cell[1], cell[2])}
    IN IF ks = {} THEN cell
       ELSE LET b == entries[CHOOSE k \in ks : \A j \in ks : k <= j][1]
            IN <<Val(b.r), Val(b.c)>>

\* The place of the first cell of the selection whose anchor is a
FirstEncounter(sheet, a) ==
    LET cells == cellsOfRanges(SelectedRanges)
    IN CHOOSE k \in 1..Len(cells) :
          /\ AnchorIn(sheet, cells[k]) = a
          /\ \A j \in 1..(k - 1) : AnchorIn(sheet, cells[j]) # a

\* C21: resolveTargetCells(ranges, sheet), for the selection and the sheet
\* the workbook answers with (or no sheet), has no two equal entries, every
\* entry is the anchor of a cell of the ranges, the anchor of every cell of
\* every range is an entry, and the entries are in the order in which their
\* anchors are first met.
C21_TargetsAreDistinctAnchors ==
    \A sheet \in {getSheet(TRUE), getSheet(FALSE)} :
        LET targets == resolveTargetCells(SelectedRanges, sheet)
            cells == cellsOfRanges(SelectedRanges)
        IN /\ \A i, j \in 1..Len(targets) : i # j => targets[i] # targets[j]
           /\ \A i \in 1..Len(targets) :
                 \E k \in 1..Len(cells) : targets[i] = AnchorIn(sheet, cells[k])
           /\ \A k \in 1..Len(cells) :
                 \E i \in 1..Len(targets) : targets[i] = AnchorIn(sheet, cells[k])
           /\ \A i, j \in 1..Len(targets) :
                 i < j => FirstEncounter(sheet, targets[i]) < FirstEncounter(sheet, targets[j])

\* two ranges that overlap in (0,0) over the merge of (1,0) and (1,1): three
\* targets for four cells; a widget was added at the merge anchor
C21_Witness ==
    /\ Len(SelectedRanges) = 2
    /\ Len(cellsOfRanges(SelectedRanges)) = 4
    /\ resolveTargetCells(SelectedRanges, getSheet(TRUE)) = <<(<<0, 0>>), (<<0, 1>>), (<<1, 0>>)>>
    /\ \E k \in 1..Len(widgetInstances) :
          widgetInstances[k].r = 1 /\ widgetInstances[k].c = 0

\* C22: in the replace variant, after any sequence of add-at-selection,
\* delete, cell-cleared and value-update operations from the empty list, no
\* two widgets of the list have the same sheetId, r and c.
C22_OneWidgetPerCell ==
    variant = "replace" =>
        \A i, j \in 1..Len(widgetInstances) :
            i # j => groupKey(widgetInstances[i]) # groupKey(widgetInstances[j])

\* the second widget created is the only one of its cell, which is selected
C22_Witness ==
    /\ variant = "replace"
    /\ nextId = 2
    /\ selection = <<(<<Range(0, 0, 0, 0)>>)>>
    /\ Len(widgetInstances) = 1
    /\ widgetInstances[1].id = 1
    /\ groupKey(widgetInstances[1]) = <<"s1", 0, 0>>

\* The widgets of a list that an add for the sheet id and targets leaves alone
OutsideTargets(ws, sheetId, targets) ==
    LET Outside(w) == w.sheetId # sheetId \/ \A k \in 1..Len(targets) : targets[k] # <<w.r, w.c>>
    IN SelectSeq(ws, Outside)

\* The widgets of a list that were created before the instance numbered id0
CreatedBefore(ws, id0) ==
    LET Old(w) == w.id < id0
    IN SelectSeq(ws, Old)

InSelectedRanges(w) ==
    \E i \in 1..Len(SelectedRanges) :
        /\ w.r \in SelectedRanges[i].row[1]..SelectedRanges[i].row[2]
        /\ w.c \in SelectedRanges[i].column[1]..SelectedRanges[i].column[2]

\* The list without the widgets of the sheet that lie in the selected ranges
WithoutSelected(ws, sheetId) ==
    LET Stays(w) == ~(w.sheetId = sheetId /\ InSelectedRanges(w))
    IN SelectSeq(ws, Stays)

\* C24: Delete, Backspace and "clear content" remove exactly the widgets
\* whose sheetId is the current sheet (the id the handler determines) and
\* whose cell lies in a selected range, bounds included; every other widget
\* stays, also one at the same cell of another sheet; with an empty
\* selection or no sheet id the list stays as it is.
C24_DeleteRemovesSelectedOnly ==
    [][\A answers \in BOOLEAN :
          (handleDelete(answers) \/ clearSelectionContent(answers)) =>
              LET sheetId == sheetIdOf(getSheet(answers))
              IN IF SelectedRanges = << >> \/ sheetId = ""
                 THEN widgetInstances' = widgetInstances
                 ELSE widgetInstances' = WithoutSelected(widgetInstances, sheetId)]_vars

\* after a delete on sheet "s1" with the four cells selected: of the two
\* widgets created, the one at (1,1) of sheet "s2" is left
C24_Witness ==
    /\ currentSheetId = "s1"
    /\ selection = <<(<<Range(0, 1, 0, 1)>>)>>
    /\ nextId = 2
    /\ Len(widgetInstances) = 1
    /\ groupKey(widgetInstances[1]) = <<"s2", 1, 1>>

\* undefined, null, the empty string, an object without keys
EmptyValues == {"undefined", "null", "", "{}"}

\* The list without the widgets of the sheet anchored at the cell
WithoutCell(ws, sheetId, row, column) ==
    LET Stays(w) == ~(w.sheetId = sheetId /\ w.r = row /\ w.c = column)
    IN SelectSeq(ws, Stays)

\* C25: a cell update whose new value is empty removes exactly the widgets
\* of the current sheet (the id the hook determines) anchored at the row and
\* column of the update; an update with a non-empty new value removes none.
C25_EmptyUpdateRemovesCellWidgets ==
    [][\A cell \in UpdatedCells, newValue \in CellValues, answers \in BOOLEAN :
          afterUpdateCell(cell[1], cell[2], newValue, answers) =>
              LET sheetId == sheetIdOf(getSheet(answers))
              IN IF newValue \in EmptyValues /\ sheetId # ""
                 THEN widgetInstances' = WithoutCell(widgetInstances, sheetId, cell[1], cell[2])
                 ELSE widgetInstances' = widgetInstances]_vars

\* of two widgets created on sheet "s1" the one at (1,1) is left, with the
\* cell (1,1) selected: the cell (0,0) was cleared
C25_Witness ==
    /\ currentSheetId = "s1"
    /\ selection = <<(<<Range(1, 1, 1, 1)>>)>>
    /\ nextId = 2
    /\ Len(widgetInstances) = 1
    /\ widgetInstances[1].id = 1
    /\ groupKey(widgetInstances[1]) = <<"s1", 1, 1>>

\* The ids of the widgets that are required and have no value
RequiredAndEmpty ==
    {widgetInstances[k].id : k \in {j \in 1..Len(widgetInstances) :
        widgetInstances[j].template = "text" /\ widgetInstances[j].value = ""}}

\* C26: after a submit the error map has an entry for exactly the widgets
\* that are required and whose value is empty; when there is such a widget
\* the result is the failure message and no value is reported, otherwise the
\* result has one value record per widget, in the order of the list.
C26_SubmitValidation ==
    [][handleSubmit =>
          /\ validationErrors' = RequiredAndEmpty
          /\ IF RequiredAndEmpty # {}
             THEN submitResult'.kind = "failure" /\ submitResult'.values = << >>
             ELSE /\ submitResult'.kind = "values"
                  /\ Len(submitResult'.values) = Len(widgetInstances)
                  /\ \A k \in 1..Len(widgetInstances) :
                        /\ submitResult'.values[k].value = widgetInstances[k].value
                        /\ submitResult'.values[k].type = widgetInstances[k].template
                        /\ submitResult'.values[k].cell
                              = <<65 + widgetInstances[k].c, 49 + widgetInstances[k].r>>]_vars

\* a failed submit of a list with an empty note and an empty required text:
\* the text alone has an error
C26_Witness ==
    /\ submitResult.kind = "failure"
    /\ Len(widgetInstances) = 2
    /\ widgetInstances[1].template = "note" /\ widgetInstances[1].value = ""
    /\ widgetInstances[2].template = "text" /\ widgetInstances[2].value = ""
    /\ validationErrors = {widgetInstances[2].id}

\* The height the effect has computed for a row (the default when none)
ComputedHeight(sheetId, row) ==
    IF <<sheetId, row>> \in DOMAIN rowlen THEN rowlen[<<sheetId, row>>] ELSE defaultRowHeight

\* The rows of the merge range of a cell of a sheet (the row of the cell
\* when it is not merged)
RowsOfRange(sheet, r, c) ==
    LET entries == MergeEntries(SheetMerge(sheet))
        ks == {k \in 1..Len(entries) : Covers(entries[k], r, c)}
    IN IF ks = {} THEN {r}
       ELSE LET b == entries[CHOOSE k \in ks : \A j \in ks : k <= j][1]
            IN Val(b.r)..(Val(b.r) + Val(b.rs) - 1)

RECURSIVE SumOfHeights(_, _)
SumOfHeights(sheetId, rows) ==
    IF rows = {} THEN 0
    ELSE LET row == CHOOSE x \in rows : TRUE
         IN ComputedHeight(sheetId, row) + SumOfHeights(sheetId, rows \ {row})

\* C27: after the row-height effect has run, for every widget group the
\* computed heights of the rows of its merge range add up to at least the
\* group's desired height, max(19, stack height + padding), and no computed
\* row height is below 19.
C27_RowsFitEveryGroup ==
    /\ \A x \in DOMAIN rowlen : rowlen[x] >= defaultRowHeight
    /\ \A g \in 1..Len(groupedWidgets(widgetInstances)) :
          LET group == groupedWidgets(widgetInstances)[g]
              sheet == FindSheet(luckysheetfile, group.cell.sheetId)
          IN (variant = "stack" /\ sheet # << >>) =>
                SumOfHeights(group.cell.sheetId, RowsOfRange(sheet, group.cell.r, group.cell.c))
                    >= desiredHeight(group, mode)

====
